---- MODULE Spec2Model ----
(***************************************************************************)
(* Y-branch splitter: the parametric polygon generator                     *)
(* (YBranchGeometry.create_polygon, splitter_function), the host-facing    *)
(* adapter (YBranchGeometry.add_to_simulation), the optimizer driver       *)
(* (run_lumopt_optimization) and the MODE base setup                       *)
(* (setup_base_simulation_mode).                                           *)
(*                                                                         *)
(* Lengths are fixed-point integers.  An x-coordinate counts units of      *)
(* 1/XUnit micrometre and a y-coordinate units of 1/YUnit micrometre; the  *)
(* two scales are chosen so that every knot position, every sample         *)
(* position and every declared bound of the source is an integer.          *)
(***************************************************************************)
EXTENDS Integers, Sequences, FiniteSets, TLC

\* ------------------------------------------------------------------ bounds

\* Largest n_points a YBranchGeometry is constructed with.
MaxNPoints == 5

\* Largest number of operations that is counted on one instance or session.
MaxCalls == 2

\* ------------------------------------------------------------------ scales

XUnit == 2 * 2 * 3 * 3 * 5 * 7 * 7
YUnit == 2 * 2 * 3 * 5 * 5 * 7 * 7

\* num/den micrometres on the x scale and on the y scale.
XUm(num, den) == (num * XUnit) \div den
YUm(num, den) == (num * YUnit) \div den

\* ------------------------------------------------------------ numpy helpers

Min2(a, b) == IF a <= b THEN a ELSE b
Max2(a, b) == IF a >= b THEN a ELSE b

\* min(seq) / max(seq) of a non-empty sequence.
SeqMin(s) == CHOOSE v \in {s[i] : i \in DOMAIN s} : \A i \in DOMAIN s : v <= s[i]
SeqMax(s) == CHOOSE v \in {s[i] : i \in DOMAIN s} : \A i \in DOMAIN s : v >= s[i]

\* A function over 1..n as a sequence value (evaluated once, element by element).
AsSeq(f) == f \o <<>>

\* A linspace that leaves the end point out: the step is (stop - start) / num.
linspace_open(start, stop, num) ==
    IF num = 1 THEN <<start>>
    ELSE AsSeq([i \in 1..num |-> start + ((i - 1) * (stop - start)) \div num])

\* np.linspace(start, stop, num): start + i * (stop - start) / (num - 1).
linspace(start, stop, num) ==
    IF num = 1 THEN <<start>>
    ELSE AsSeq([i \in 1..num |-> start + ((i - 1) * (stop - start)) \div (num - 1)])

\* list[::-1]
Reverse(s) == AsSeq([i \in 1..Len(s) |-> s[Len(s) + 1 - i]])

\* list(zip(xs, ys))
Zip(xs, ys) == AsSeq([i \in 1..Min2(Len(xs), Len(ys)) |-> <<xs[i], ys[i]>>])

\* [(x, -y) for x, y in pts]
Mirror(pts) == AsSeq([i \in 1..Len(pts) |-> <<pts[i][1], -pts[i][2]>>])

\* ------------------------------------------------ scipy interp1d(kind='cubic')

\* One Neville step: the line through (xa, pa) and (xb, pb) evaluated at x.
Neville(xa, pa, xb, pb, x) == ((x - xa) * pb + (xb - x) * pa) \div (xb - xa)

\* The cubic through the four knots w .. w+3, evaluated at x.  It passes
\* through each of its knots exactly.
Cubic4(px, py, w, x) ==
    LET p01  == Neville(px[w],     py[w],     px[w + 1], py[w + 1], x)
        p12  == Neville(px[w + 1], py[w + 1], px[w + 2], py[w + 2], x)
        p23  == Neville(px[w + 2], py[w + 2], px[w + 3], py[w + 3], x)
        p012 == Neville(px[w],     p01,       px[w + 2], p12,       x)
        p123 == Neville(px[w + 1], p12,       px[w + 3], p23,       x)
    IN  Neville(px[w], p012, px[w + 3], p123, x)

\* Whether interp1d(points_x, points_y, kind='cubic') can be built: x and y
\* of equal length, and at least four points for a cubic.
interp1d_ok(points_x, points_y) ==
    /\ Len(points_x) = Len(points_y)
    /\ Len(points_x) >= 4

\* interpolator(x) for x inside [points_x[1], points_x[m]] (bounds_error):
\* a piecewise cubic through all knots; with exactly four knots it is the
\* single not-a-knot cubic.
interp1d(points_x, points_y, x) ==
    LET m == Len(points_x)
        k == CHOOSE j \in 1..(m - 1) :
                 /\ points_x[j] <= x
                 /\ (x < points_x[j + 1] \/ j = m - 1)
        w == Max2(1, Min2(k - 1, m - 3))
    IN  Cubic4(points_x, points_y, w, x)

\* Every sample position lies in the interpolation domain.
in_domain(points_x, xs) ==
    \A i \in DOMAIN xs : points_x[1] <= xs[i] /\ xs[i] <= points_x[Len(points_x)]

\* ---------------------------------------------------------- call outcomes

Returned(v, nfits) == [status |-> "ok", error |-> "none", value |-> v, fits |-> nfits]
Raised(e, nfits)   == [status |-> "raised", error |-> e, value |-> <<>>, fits |-> nfits]

\* ------------------------------------------- YBranchGeometry.__init__

\* self.initial_points_x = np.linspace(-1.0e-6, 1.0e-6, n_points)
init_points_x(n) == linspace(-XUm(1, 1), XUm(1, 1), n)

\* self.initial_points_y = np.linspace(0.25e-6, 1.25e-6, n_points)
init_points_y(n) == linspace(YUm(25, 100), YUm(125, 100), n)

\* self.bounds = [(0.2e-6, 1.5e-6)] * n_points, then bounds[0] and bounds[-1]
\* assigned in this order (for n_points = 1 both name the same entry).
init_bounds(n) ==
    LET all   == AsSeq([i \in 1..n |-> <<YUm(20, 100), YUm(150, 100)>>])
        first == [all EXCEPT ![1] = <<YUm(24, 100), YUm(28, 100)>>]
    IN  [first EXCEPT ![n] = <<YUm(120, 100), YUm(130, 100)>>]

\* ------------------------------------- YBranchGeometry.create_polygon

\* n_interpolation_points = 100
n_interpolation_points == 100

\* inner_x = np.linspace(x_split, x_end, 50); inner_y likewise
n_inner_points == 50

\* np.concatenate(([knots.min() - left], knots, [knots.max() + right]))
extend_x(knots, left, right) ==
    <<SeqMin(knots) - left>> \o knots \o <<SeqMax(knots) + right>>

\* A concatenation that puts the last value at the left overhang and the
\* first at the right.
extend_y_swapped(p) == <<p[Len(p)]>> \o p \o <<p[1]>>

\* np.concatenate(([p[0]], p, [p[-1]]))
extend_y(p) == <<p[1]>> \o p \o <<p[Len(p)]>>

\* upper_outer = list(zip(polygon_points_x, polygon_points_y))
upper_outer(xs, ys) == Zip(xs, ys)

\* A variant of upper_inner that leaves out the bifurcation point, which
\* lower_inner repeats.
upper_inner_open(xs, ys) ==
    SubSeq(Reverse(Zip(xs, ys)), 1, Min2(Len(xs), Len(ys)) - 1)

\* upper_inner = list(zip(inner_x, inner_y))[::-1]
upper_inner(xs, ys) == Reverse(Zip(xs, ys))

\* lower_inner = [(x, -y) for x, y in zip(inner_x, inner_y)]
lower_inner(xs, ys) == Mirror(Zip(xs, ys))

\* A variant of lower_outer that mirrors without reversing.
lower_outer_forward(uo) == Mirror(uo)

\* lower_outer = [(x, -y) for x, y in upper_outer[::-1]]
lower_outer(uo) == Mirror(Reverse(uo))

\* A variant of final_points that extends by the two inner runs in the
\* other order.
final_points_swapped(uo, ui, li, lo) == uo \o li \o ui \o lo

\* final_points: extend by upper_outer, upper_inner, lower_inner, lower_outer
final_points(uo, ui, li, lo) == uo \o ui \o li \o lo

\* The samples of one spline edge: interpolator(xs).
spline_samples(points_x, points_y, xs) ==
    AsSeq([i \in 1..Len(xs) |-> interp1d(points_x, points_y, xs[i])])

\* create_polygon(self, params), self read through self.initial_points_x.
create_polygon(self_x, params) ==
    IF Len(params) = 0 THEN Raised("IndexError", 0)      \* params[0]
    ELSE
    LET points_x == extend_x(self_x, XUm(1, 10), XUm(1, 10))
        points_y == extend_y(params)
        polygon_points_x ==
            linspace(SeqMin(points_x), SeqMax(points_x), n_interpolation_points)
    IN  IF ~interp1d_ok(points_x, points_y) THEN Raised("ValueError", 1)
        ELSE IF ~in_domain(points_x, polygon_points_x) THEN Raised("ValueError", 1)
        ELSE
        LET polygon_points_y == spline_samples(points_x, points_y, polygon_points_x)
            x_split     == 0
            x_end       == SeqMax(points_x)
            y_split     == 0
            y_inner_end == YUm(75, 100)
            inner_x     == linspace(x_split, x_end, n_inner_points)
            inner_y     == linspace(y_split, y_inner_end, n_inner_points)
            uo          == upper_outer(polygon_points_x, polygon_points_y)
        IN  Returned(final_points(uo,
                                  upper_inner(inner_x, inner_y),
                                  lower_inner(inner_x, inner_y),
                                  lower_outer(uo)), 1)

\* A variant of the frame in which the extended knots are kept in
\* self.initial_points_x.
create_polygon_keeps_knots(self_x, params) ==
    extend_x(self_x, XUm(1, 10), XUm(1, 10))

\* The frame of create_polygon: it assigns no attribute of self, and it reads
\* params without writing it (np.concatenate copies).
create_polygon_self_x(self_x, params) == self_x
create_polygon_params(self_x, params) == params

\* -------------------------------------------------------------- inputs

\* A control vector inside its declared bounds, element by element.
InBounds(p, bnds) ==
    /\ Len(p) = Len(bnds)
    /\ \A i \in 1..Len(p) : bnds[i][1] <= p[i] /\ p[i] <= bnds[i][2]

\* Some element of the vector lies outside its declared bound.
OutOfBounds(p, bnds) ==
    \E i \in 1..Min2(Len(p), Len(bnds)) : p[i] < bnds[i][1] \/ p[i] > bnds[i][2]

LowerCorner(bnds) == AsSeq([i \in 1..Len(bnds) |-> bnds[i][1]])
UpperCorner(bnds) == AsSeq([i \in 1..Len(bnds) |-> bnds[i][2]])

\* Control vectors around a nominal vector y0 with bounds bnds: the nominal
\* vector, the corners of the bounds box, the nominal vector with one element
\* (at an index of idx) moved to either end of its bound or out of it, and
\* vectors of the wrong length.
VectorsAround(y0, bnds, idx) ==
    LET n == Len(y0)
    IN  {y0, LowerCorner(bnds), UpperCorner(bnds)}
        \cup {[y0 EXCEPT ![i] = bnds[i][1]] : i \in idx}
        \cup {[y0 EXCEPT ![i] = bnds[i][2]] : i \in idx}
        \cup {[y0 EXCEPT ![i] = bnds[i][2] + YUm(50, 100)] : i \in idx}
        \cup {[y0 EXCEPT ![1] = bnds[1][1] - YUm(10, 100)]}
        \cup {<<>>, SubSeq(y0, 1, n - 1), y0 \o <<y0[n]>>}

\* The control vectors handed to an instance with n_points = n.
ParamChoices(n) == VectorsAround(init_points_y(n), init_bounds(n), 1..n)

\* ------------------------------------------------- splitter_function

\* n_interp = 100
n_interp == 100

\* poly_x_inner = np.linspace(0.0, max(points_x_inner), 50)
n_interp_inner == 50

splitter_function(params) ==
    LET n_total == Len(params)
        n_outer == n_total \div 2
        n_inner == n_total - n_outer
        params_outer == SubSeq(params, 1, n_outer)
        params_inner == SubSeq(params, n_outer + 1, n_total)
    IN  IF n_outer = 0 THEN Raised("ValueError", 0)       \* min() of an empty array
        ELSE
        LET outer_x_knots  == linspace(-XUm(1, 1), XUm(1, 1), n_outer)
            points_x_outer == extend_x(outer_x_knots, XUm(1, 10), XUm(1, 10))
            points_y_outer == extend_y(params_outer)
            poly_x_outer   ==
                linspace(SeqMin(points_x_outer), SeqMax(points_x_outer), n_interp)
        IN  IF ~interp1d_ok(points_x_outer, points_y_outer) THEN Raised("ValueError", 1)
            ELSE IF ~in_domain(points_x_outer, poly_x_outer) THEN Raised("ValueError", 1)
            ELSE
            LET poly_y_outer   == spline_samples(points_x_outer, points_y_outer, poly_x_outer)
                inner_x_knots  == linspace(0, XUm(1, 1), n_inner)
                points_x_inner == extend_x(inner_x_knots, XUm(5, 100), XUm(1, 10))
                points_y_inner == extend_y(params_inner)
                poly_x_inner   == linspace(0, SeqMax(points_x_inner), n_interp_inner)
            IN  IF ~interp1d_ok(points_x_inner, points_y_inner) THEN Raised("ValueError", 2)
                ELSE IF ~in_domain(points_x_inner, poly_x_inner) THEN Raised("ValueError", 2)
                ELSE
                LET poly_y_inner == spline_samples(points_x_inner, points_y_inner, poly_x_inner)
                    uo           == upper_outer(poly_x_outer, poly_y_outer)
                IN  Returned(final_points(uo,
                                          upper_inner(poly_x_inner, poly_y_inner),
                                          lower_inner(poly_x_inner, poly_y_inner),
                                          lower_outer(uo)), 2)

\* The extended knot x-positions of the three fitted edges, as the code
\* builds them: points_x of create_polygon, points_x_outer and points_x_inner
\* of splitter_function.
polygon_points_x_knots(self_x) == extend_x(self_x, XUm(1, 10), XUm(1, 10))

splitter_points_x_outer(params) ==
    extend_x(linspace(-XUm(1, 1), XUm(1, 1), Len(params) \div 2),
             XUm(1, 10), XUm(1, 10))

splitter_points_x_inner(params) ==
    extend_x(linspace(0, XUm(1, 1), Len(params) - Len(params) \div 2),
             XUm(5, 100), XUm(1, 10))

\* ------------------------------------------------ the host session (sim)

\* A session: its solids in creation order and the indices of the selected.
Session(objs, sel) == [objects |-> objs, selected |-> sel]

\* The object sim.add<kind>() creates, before any property is set: an
\* object is the function from the names of its properties to their values.
NewObject(kind) == [type |-> kind, name |-> kind]

\* sim.select(name): the solids of that name become the selection.
host_select(sim, name) ==
    Session(sim.objects,
            {i \in 1..Len(sim.objects) : sim.objects[i].name = name})

\* The solids from index i on that are not selected, in order.
RECURSIVE unselected(_, _, _)
unselected(objs, sel, i) ==
    IF i > Len(objs) THEN <<>>
    ELSE (IF i \in sel THEN <<>> ELSE <<objs[i]>>) \o unselected(objs, sel, i + 1)

\* sim.delete(): the selected solids are removed.
host_delete(sim) == Session(unselected(sim.objects, sim.selected, 1), {})

\* sim.add<kind>(): a new object, which becomes the selection.
host_add(sim, kind) ==
    Session(Append(sim.objects, NewObject(kind)), {Len(sim.objects) + 1})

\* sim.set(prop, value): the property of every selected object.
host_set(sim, prop, value) ==
    Session(AsSeq([i \in 1..Len(sim.objects) |->
                      IF i \in sim.selected
                      THEN (prop :> value) @@ sim.objects[i]
                      ELSE sim.objects[i]]),
            sim.selected)

\* One host call, applied to the session.
host_apply(sim, c) ==
    CASE c.call = "select" -> host_select(sim, c.arg)
      [] c.call = "delete" -> host_delete(sim)
      [] c.call = "set"    -> host_set(sim, c.arg, c.value)
      [] OTHER             -> host_add(sim, c.arg)

HostCall(call, arg, value) == [call |-> call, arg |-> arg, value |-> value]
Logged(c, ok) == [call |-> c.call, arg |-> c.arg, ok |-> ok]

\* What a sequence of operations has done: the session, the host calls
\* issued (each with whether it succeeded), and whether one of them raised.
Progress(sim, log, raised) == [sim |-> sim, log |-> log, raised |-> raised]

\* Host calls issued one after the other; call number failAt (0: none) fails,
\* raises, and ends the sequence.
RECURSIVE run_calls(_, _, _, _)
run_calls(pr, steps, i, failAt) ==
    IF i > Len(steps) THEN pr
    ELSE IF i = failAt
         THEN Progress(pr.sim, Append(pr.log, Logged(steps[i], FALSE)), TRUE)
         ELSE run_calls(Progress(host_apply(pr.sim, steps[i]),
                                 Append(pr.log, Logged(steps[i], TRUE)),
                                 FALSE),
                        steps, i + 1, failAt)

\* ---------------------------------- YBranchGeometry.add_to_simulation

\* try: sim.select("y_branch_opt"); sim.delete()  except: pass
delete_if_exists(sim, failAt) ==
    LET pr == run_calls(Progress(sim, <<>>, FALSE),
                        <<HostCall("select", "y_branch_opt", "none"),
                          HostCall("delete", "none", "none")>>,
                        1, failAt)
    IN  Progress(pr.sim, pr.log, FALSE)

\* sim.addpoly() and the seven sim.set calls that follow it.
add_poly_calls(polygon_points) ==
    <<HostCall("addpoly", "polygon", "none"),
      HostCall("set", "name", "y_branch_opt"),
      HostCall("set", "x", "0"),
      HostCall("set", "y", "0"),
      HostCall("set", "z", "0"),
      HostCall("set", "z span", "depth"),
      HostCall("set", "vertices", polygon_points),
      HostCall("set", "index", "3.48")>>

\* An adapter that clears the old solid before it generates the polygon.
add_to_simulation_clears_first(gen, sim, failTry, failAdd) ==
    LET cleared == delete_if_exists(sim, failTry)
        added   == run_calls(cleared, add_poly_calls(gen.value), 1, failAdd)
    IN  IF gen.status = "raised"
        THEN [ret |-> gen, sim |-> cleared.sim, log |-> cleared.log]
        ELSE [ret |-> IF added.raised THEN Raised("HostUnavailable", gen.fits)
                                      ELSE gen,
              sim |-> added.sim,
              log |-> added.log]

\* add_to_simulation(self, sim, params), given the outcome gen of its first
\* statement, polygon_points = self.create_polygon(params): the outcome, the
\* session and the host calls.  failTry (0, 1: select, 2: delete) and failAdd
\* (0, 1: addpoly, 2..8: the sets) name the host calls that fail.
add_to_simulation(gen, sim, failTry, failAdd) ==
    IF gen.status = "raised"
    THEN [ret |-> gen, sim |-> sim, log |-> <<>>]
    ELSE
    LET cleared == delete_if_exists(sim, failTry)
        added   == run_calls(cleared, add_poly_calls(gen.value), 1, failAdd)
    IN  [ret |-> IF added.raised THEN Raised("HostUnavailable", gen.fits)
                                 ELSE gen,
         sim |-> added.sim,
         log |-> added.log]

\* ------------------------------------------- run_lumopt_optimization

\* n_points_outer = 10, n_points_inner = 10
n_points_outer == 10
n_points_inner == 10

\* initial_points_y = np.concatenate([initial_outer, initial_inner]) for
\* no outer and ni inner control points.
lumopt_initial(no, ni) ==
    linspace(YUm(25, 100), YUm(125, 100), no) \o linspace(0, YUm(75, 100), ni)

\* bounds = bounds_outer + bounds_inner for no outer and ni inner control
\* points.
lumopt_bounds(no, ni) ==
    LET bo0 == AsSeq([i \in 1..no |-> <<YUm(20, 100), YUm(150, 100)>>])
        bo1 == [bo0 EXCEPT ![1] = <<YUm(24, 100), YUm(26, 100)>>]
        bounds_outer == [bo1 EXCEPT ![no] = <<YUm(120, 100), YUm(130, 100)>>]
        bi0 == AsSeq([i \in 1..ni |-> <<-YUm(10, 100), YUm(80, 100)>>])
        bi1 == [bi0 EXCEPT ![1] = <<-YUm(5, 100), YUm(5, 100)>>]
        bounds_inner == [bi1 EXCEPT ![ni] = <<YUm(70, 100), YUm(80, 100)>>]
    IN  bounds_outer \o bounds_inner

\* The control vectors handed to splitter_function: those around the
\* optimizer's initial vector, and the initial vector of every other length
\* from 0 up.
SplitterChoices ==
    VectorsAround(lumopt_initial(n_points_outer, n_points_inner),
                  lumopt_bounds(n_points_outer, n_points_inner),
                  {1, n_points_outer \div 2, n_points_outer, n_points_outer + 1,
                   n_points_outer + n_points_inner \div 2,
                   n_points_outer + n_points_inner})
    \cup {lumopt_initial(len \div 2, len - len \div 2) : len \in 0..(2 * MaxNPoints + 1)}

\* Step 6: try: opt.run()  except Exception as e: print(...)  and then
\* return opt; without lumopt the function returns None before any call.
run_lumopt_optimization(lumopt_available, run_ok) ==
    IF ~lumopt_available
    THEN [ret |-> Returned("None", 0), log |-> <<>>]
    ELSE [ret |-> Returned("opt", 0),
          log |-> <<Logged(HostCall("opt.run", "none", "none"), run_ok)>>]

\* ------------------------------------------------------------ the state

VARIABLES
    n_points,           \* self.n_points
    initial_points_x,   \* self.initial_points_x
    initial_points_y,   \* self.initial_points_y
    bounds,             \* self.bounds
    op,                 \* the operation invoked last
    arg,                \* the control vector it was invoked with
    params,             \* the caller's vector after the call
    ret,                \* its outcome
    sim,                \* the host session
    hostCalls,          \* the host calls it issued
    calls,              \* operations invoked so far (counted up to MaxCalls)
    pc                  \* the next call of a running base setup (0: none runs)

vars == <<n_points, initial_points_x, initial_points_y, bounds,
          op, arg, params, ret, sim, hostCalls, calls, pc>>

self_vars == <<n_points, initial_points_x, initial_points_y, bounds>>

NoOutcome == [status |-> "none", error |-> "none", value |-> <<>>, fits |-> 0]

\* Nothing invoked yet.
Fresh ==
    /\ op = "init"
    /\ arg = <<>>
    /\ params = <<>>
    /\ ret = NoOutcome
    /\ hostCalls = <<>>
    /\ calls = 0
    /\ pc = 0

\* y_branch_geometry: YBranchGeometry(n_points = n) has been constructed.
Constructed(n) ==
    /\ n_points = n
    /\ initial_points_x = init_points_x(n)
    /\ initial_points_y = init_points_y(n)
    /\ bounds = init_bounds(n)
    /\ Fresh

\* y_branch_lumopt: the script's functions, which use no YBranchGeometry.
LumoptScript ==
    /\ n_points = 0
    /\ initial_points_x = <<>>
    /\ initial_points_y = <<>>
    /\ bounds = <<>>
    /\ Fresh

EmptySession == Session(<<>>, {})

\* A session that already holds a solid named "y_branch_opt" (and another
\* solid, which is the selection).
StaleSession ==
    Session(<<[type |-> "rect", name |-> "substrate"],
              [type |-> "polygon", name |-> "y_branch_opt",
               vertices |-> <<<<0, 0>>, <<1, 0>>, <<0, 1>>>>]>>,
            {1})

\* ----------------------------------------------- the generator's calls

Init ==
    /\ (\E n \in 1..MaxNPoints : Constructed(n)) \/ LumoptScript
    /\ sim = EmptySession

\* geometry.create_polygon(p)
CreatePolygon ==
    /\ n_points >= 1
    /\ \E p \in ParamChoices(n_points) :
        /\ op' = "create_polygon"
        /\ arg' = p
        /\ ret' = create_polygon(initial_points_x, p)
        /\ initial_points_x' = create_polygon_self_x(initial_points_x, p)
        /\ params' = create_polygon_params(initial_points_x, p)
        /\ hostCalls' = <<>>
        /\ calls' = Min2(calls + 1, MaxCalls)
        /\ UNCHANGED <<n_points, initial_points_y, bounds, sim, pc>>

\* splitter_function(p)
SplitterFunction ==
    /\ n_points = 0
    /\ \E p \in SplitterChoices :
        /\ op' = "splitter_function"
        /\ arg' = p
        /\ ret' = splitter_function(p)
        /\ params' = p
        /\ hostCalls' = <<>>
        /\ calls' = Min2(calls + 1, MaxCalls)
        /\ UNCHANGED <<self_vars, sim, pc>>

Next == CreatePolygon \/ SplitterFunction

Spec == Init /\ [][Next]_vars

\* ------------------------------------- the adapter and the optimizer driver

\* The control vectors handed to add_to_simulation of an instance with
\* n_points = n: two of the right length and one too long.
SimChoices(n) ==
    {init_points_y(n), UpperCorner(init_bounds(n)),
     init_points_y(n) \o <<init_points_y(n)[n]>>}

InitSim ==
    \/ /\ \E n \in 1..MaxNPoints : Constructed(n)
       /\ sim \in {EmptySession, StaleSession}
    \/ /\ LumoptScript
       /\ sim = EmptySession

\* geometry.add_to_simulation(sim, p).  A session on which an operation
\* raised HostUnavailable is not used again.
AddToSimulation ==
    /\ n_points >= 1
    /\ calls < MaxCalls
    /\ ret.error # "HostUnavailable"
    /\ \E p \in SimChoices(n_points) :
        LET gen == create_polygon(initial_points_x, p)
        IN  \E failTry \in 0..2, failAdd \in 0..8 :
            LET r == add_to_simulation(gen, sim, failTry, failAdd)
            IN  /\ op' = "add_to_simulation"
                /\ arg' = p
                /\ params' = p
                /\ ret' = r.ret
                /\ sim' = r.sim
                /\ hostCalls' = r.log
                /\ calls' = calls + 1
                /\ UNCHANGED <<self_vars, pc>>

\* run_lumopt_optimization()
RunLumoptOptimization ==
    /\ n_points = 0
    /\ calls < MaxCalls
    /\ \E lumopt_available \in BOOLEAN, run_ok \in BOOLEAN :
        LET r == run_lumopt_optimization(lumopt_available, run_ok)
        IN  /\ op' = "run_lumopt_optimization"
            /\ ret' = r.ret
            /\ hostCalls' = r.log
            /\ calls' = calls + 1
            /\ UNCHANGED <<self_vars, arg, params, sim, pc>>

NextSim == AddToSimulation \/ RunLumoptOptimization

SpecSim == InitSim /\ [][NextSim]_vars

\* ------------------------------------------ setup_base_simulation_mode

\* One host call of the setup: made on sim directly or through safe_set or
\* soft_set, at a line of the source.
SetupCall(via, call, prop, line) ==
    [via |-> via, call |-> call, arg |-> prop, value |-> line]

\* The host calls of setup_base_simulation_mode, in program order.
mode_script ==
    <<
      SetupCall("sim", "addvarfdtd", "none", 61),
      SetupCall("safe_set", "set", "x", 62),
      SetupCall("safe_set", "set", "y", 63),
      SetupCall("safe_set", "set", "x span", 64),
      SetupCall("safe_set", "set", "y span", 65),
      SetupCall("safe_set", "set", "mesh accuracy", 66),
      SetupCall("safe_set", "set", "simulation time", 67),
      SetupCall("safe_set", "set", "x min bc", 70),
      SetupCall("safe_set", "set", "x max bc", 71),
      SetupCall("safe_set", "set", "y min bc", 72),
      SetupCall("safe_set", "set", "y max bc", 73),
      SetupCall("sim", "addrect", "none", 78),
      SetupCall("safe_set", "set", "name", 79),
      SetupCall("safe_set", "set", "x", 80),
      SetupCall("safe_set", "set", "y", 81),
      SetupCall("safe_set", "set", "x span", 82),
      SetupCall("safe_set", "set", "y span", 83),
      SetupCall("safe_set", "set", "index", 84),
      SetupCall("safe_set", "set", "alpha", 85),
      SetupCall("sim", "addrect", "none", 90),
      SetupCall("safe_set", "set", "name", 91),
      SetupCall("safe_set", "set", "x", 92),
      SetupCall("safe_set", "set", "x span", 93),
      SetupCall("safe_set", "set", "y", 94),
      SetupCall("safe_set", "set", "y span", 95),
      SetupCall("safe_set", "set", "index", 96),
      SetupCall("sim", "addrect", "none", 101),
      SetupCall("safe_set", "set", "name", 102),
      SetupCall("safe_set", "set", "x", 103),
      SetupCall("safe_set", "set", "x span", 104),
      SetupCall("safe_set", "set", "y", 105),
      SetupCall("safe_set", "set", "y span", 106),
      SetupCall("safe_set", "set", "index", 107),
      SetupCall("sim", "addrect", "none", 110),
      SetupCall("safe_set", "set", "name", 111),
      SetupCall("safe_set", "set", "x", 112),
      SetupCall("safe_set", "set", "x span", 113),
      SetupCall("safe_set", "set", "y", 114),
      SetupCall("safe_set", "set", "y span", 115),
      SetupCall("safe_set", "set", "index", 116),
      SetupCall("sim", "addmode", "none", 121),
      SetupCall("soft_set", "set", "injection axis", 122),
      SetupCall("soft_set", "set", "direction", 123),
      SetupCall("safe_set", "set", "x", 124),
      SetupCall("safe_set", "set", "y", 125),
      SetupCall("safe_set", "set", "y span", 126),
      SetupCall("soft_set", "set", "wavelength start", 127),
      SetupCall("soft_set", "set", "wavelength stop", 128),
      SetupCall("sim", "addpower", "none", 133),
      SetupCall("safe_set", "set", "name", 134),
      SetupCall("safe_set", "set", "x", 135),
      SetupCall("safe_set", "set", "x span", 136),
      SetupCall("safe_set", "set", "y", 137),
      SetupCall("safe_set", "set", "y span", 138),
      SetupCall("sim", "addpower", "none", 141),
      SetupCall("safe_set", "set", "name", 142),
      SetupCall("safe_set", "set", "x", 143),
      SetupCall("safe_set", "set", "y", 144),
      SetupCall("safe_set", "set", "y span", 145),
      SetupCall("sim", "addpower", "none", 148),
      SetupCall("safe_set", "set", "name", 149),
      SetupCall("safe_set", "set", "x", 150),
      SetupCall("safe_set", "set", "y", 151),
      SetupCall("safe_set", "set", "y span", 152),
      SetupCall("sim", "addmesh", "none", 155),
      SetupCall("safe_set", "set", "name", 156),
      SetupCall("safe_set", "set", "x", 157),
      SetupCall("safe_set", "set", "x span", 158),
      SetupCall("safe_set", "set", "y", 159),
      SetupCall("safe_set", "set", "y span", 160),
      SetupCall("safe_set", "set", "dx", 161),
      SetupCall("safe_set", "set", "dy", 162)
    >>

\* A safe_set that prints the failure and goes on.
safe_set_continues(ok) == "continue"

\* safe_set: the failure is printed and re-raised.
safe_set(ok) == IF ok THEN "continue" ELSE "raise"

\* soft_set: the failure is printed and the setup goes on.
soft_set(ok) == "continue"

\* A call made on sim directly: a failure propagates.
direct_call(ok) == IF ok THEN "continue" ELSE "raise"

setup_outcome(c, ok) ==
    CASE c.via = "safe_set" -> safe_set(ok)
      [] c.via = "soft_set" -> soft_set(ok)
      [] OTHER              -> direct_call(ok)

InitSetup ==
    /\ LumoptScript
    /\ sim = EmptySession

\* setup_base_simulation_mode(sim) is entered.
SetupStart ==
    /\ op = "init"
    /\ op' = "setup_base_simulation_mode"
    /\ pc' = 1
    /\ UNCHANGED <<self_vars, arg, params, ret, sim, hostCalls, calls>>

\* The next host call of the setup: it succeeds or fails.
SetupStep ==
    /\ op = "setup_base_simulation_mode"
    /\ ret.status = "none"
    /\ pc >= 1 /\ pc <= Len(mode_script)
    /\ \E ok \in BOOLEAN :
        LET c == mode_script[pc]
            go == setup_outcome(c, ok) = "continue"
        IN  /\ hostCalls' = Append(hostCalls,
                                   [via |-> c.via, call |-> c.call, arg |-> c.arg,
                                    at |-> pc, ok |-> ok])
            /\ sim' = IF ok THEN host_apply(sim, c) ELSE sim
            /\ pc' = IF go THEN pc + 1 ELSE pc
            /\ ret' = IF ~go THEN Raised("HostUnavailable", 0)
                      ELSE IF pc = Len(mode_script) THEN Returned("settings", 0)
                      ELSE ret
            /\ UNCHANGED <<self_vars, op, arg, params, calls>>

NextSetup == SetupStart \/ SetupStep

SpecSetup == InitSetup /\ [][NextSetup]_vars

\* ------------------------------------------------------- export_to_gds

\* polygon_points_um = polygon_points * 1e6
metres_to_micrometres == 1000000

\* A generated polygon as the array handed to export_to_gds: every number is
\* held in units of 10^-9, so a coordinate in metres is its whole count of
\* nanometres, and the same number times 1e6 is that count times 1000000.
AsArray(P) ==
    AsSeq([i \in 1..Len(P) |->
              <<(P[i][1] * 1000) \div XUnit, (P[i][2] * 1000) \div YUnit>>])

\* array * factor: a new array, each coordinate of each row multiplied.
times(points, factor) ==
    AsSeq([i \in 1..Len(points) |->
              <<points[i][1] * factor, points[i][2] * factor>>])

\* gdspy.Polygon(points, layer = layer)
gds_polygon(points, layer) == [points |-> points, layer |-> layer]

\* lib.new_cell(name) followed by cell.add(poly)
gds_cell(name, poly) == [name |-> name, polygons |-> <<poly>>]

\* export_to_gds(polygon_points, filename, layer): the outcome, the calls made
\* on the library (lib.write_gds with the cells it was given and whether it
\* succeeded) and the caller's array after the call.  Without gdspy the import
\* raises ImportError, which is caught: two warnings are printed and the
\* function returns.  Any other failure is not caught.
export_to_gds(polygon_points, layer, gdspy_available, write_ok) ==
    IF ~gdspy_available
    THEN [ret |-> Returned("None", 0), log |-> <<>>, points |-> polygon_points]
    ELSE
    LET polygon_points_um == times(polygon_points, metres_to_micrometres)
        poly == gds_polygon(polygon_points_um, layer)
        cell == gds_cell("Y_BRANCH", poly)
    IN  [ret |-> IF write_ok THEN Returned("None", 0)
                             ELSE Raised("HostUnavailable", 0),
         log |-> <<[call |-> "write_gds", arg |-> "y_branch_optimized.gds",
                    value |-> <<cell>>, ok |-> write_ok]>>,
         points |-> polygon_points]

\* The polygons that are exported: those an instance generates from its
\* initial vector and from the corners of its bounds.
ExportChoices(n) ==
    {init_points_y(n), LowerCorner(init_bounds(n)), UpperCorner(init_bounds(n))}

InitExport ==
    /\ \E n \in 2..MaxNPoints : Constructed(n)
    /\ sim = EmptySession

\* export_to_gds(geometry.create_polygon(p), layer = layer)
ExportToGds ==
    /\ calls < MaxCalls
    /\ ret.status # "raised"
    /\ \E p \in ExportChoices(n_points) :
        LET gen == create_polygon(initial_points_x, p)
        IN  /\ gen.status = "ok"
            /\ \E layer \in 1..2, gdspy_available \in BOOLEAN, write_ok \in BOOLEAN :
                LET r == export_to_gds(AsArray(gen.value), layer,
                                       gdspy_available, write_ok)
                IN  /\ op' = "export_to_gds"
                    /\ arg' = AsArray(gen.value)
                    /\ params' = r.points
                    /\ ret' = r.ret
                    /\ hostCalls' = r.log
                    /\ calls' = calls + 1
                    /\ UNCHANGED <<self_vars, sim, pc>>

NextExport == ExportToGds

SpecExport == InitExport /\ [][NextExport]_vars

\* ===================================================== the generator's claims

\* The last operation was a call of the generator and it returned a polygon.
Generated ==
    /\ op \in {"create_polygon", "splitter_function"}
    /\ ret.status = "ok"

NegY(q) == <<q[1], -q[2]>>

\* The number of samples of the outer and of the inner edge in the last call.
OuterSamples == IF op = "splitter_function" THEN n_interp ELSE n_interpolation_points
InnerSamples == IF op = "splitter_function" THEN n_interp_inner ELSE n_inner_points

\* C1: the returned vertex list is, in this order, the outer-edge samples in
\* increasing x (from the left overhang to the right overhang, starting at
\* the first and ending at the last outer control value), the inner-edge
\* samples in decreasing x (from the right overhang back to the bifurcation
\* at x = 0), the y-negated inner-edge samples in increasing x and the
\* y-negated outer-edge samples in decreasing x; nothing else is in the list.
C1_FourRunsInOrder ==
    Generated =>
        LET P  == ret.value
            no == OuterSamples
            ni == InnerSamples
            n_outer_ctl == IF op = "splitter_function" THEN Len(arg) \div 2 ELSE Len(arg)
        IN  /\ Len(P) = no + ni + ni + no
            /\ P[1] = <<-XUm(11, 10), arg[1]>>
            /\ P[no] = <<XUm(11, 10), arg[n_outer_ctl]>>
            /\ \A i \in 1..(no - 1) : P[i][1] < P[i + 1][1]
            /\ P[no + 1][1] = XUm(11, 10)
            /\ P[no + ni][1] = 0
            /\ \A i \in (no + 1)..(no + ni - 1) : P[i][1] > P[i + 1][1]
            /\ \A j \in 1..ni : P[no + ni + j] = NegY(P[no + ni + 1 - j])
            /\ \A j \in 1..no : P[no + ni + ni + j] = NegY(P[no + 1 - j])

C1_Witness ==
    /\ Generated
    /\ op = "splitter_function"
    /\ Len(arg) = n_points_outer + n_points_inner
    /\ ret.value[n_interp + 1] # ret.value[n_interp]

\* C2: the returned polygon is symmetric about the x-axis: the vertex at
\* position i from the end is the vertex at position i from the start with
\* its y negated and its x unchanged, so every vertex (x, y) has its mirror
\* image (x, -y) in the list.
C2_SymmetricAboutXAxis ==
    Generated =>
        LET P == ret.value
        IN  /\ \A i \in 1..Len(P) : P[Len(P) + 1 - i] = NegY(P[i])
            /\ \A i \in 1..Len(P) : \E j \in 1..Len(P) : P[j] = NegY(P[i])

C2_Witness ==
    /\ Generated
    /\ op = "create_polygon"
    /\ InBounds(arg, bounds)
    /\ ret.value[1][2] > 0
    /\ ret.value[Len(ret.value)][2] < 0

\* C9: the generator keeps no state: the instance's configuration is the one
\* its constructor set, the caller's vector is the one that was passed, and
\* the outcome of create_polygon is the outcome the freshly constructed
\* instance gives for that vector, whatever was called before.
C9_NoHiddenState ==
    /\ params = arg
    /\ n_points >= 1 =>
        /\ initial_points_x = init_points_x(n_points)
        /\ initial_points_y = init_points_y(n_points)
        /\ bounds = init_bounds(n_points)
    /\ op = "create_polygon" =>
        ret = create_polygon(init_points_x(n_points), arg)
    /\ op = "splitter_function" => ret = splitter_function(arg)

C9_Witness ==
    /\ Generated
    /\ op = "create_polygon"
    /\ calls >= 2
    /\ arg = initial_points_y

\* C10: a call that succeeds returns (100 + 50) x 2 = 300 vertices, whatever
\* the control values and however many control points there are.
C10_VertexCount ==
    Generated => Len(ret.value) = (100 + 50) * 2

C10_Witness ==
    /\ Generated
    /\ op = "splitter_function"
    /\ Len(arg) # n_points_outer + n_points_inner
    /\ Len(ret.value) = (100 + 50) * 2

\* The control vector of the last generator call against the bounds declared
\* for it: self.bounds for create_polygon, the optimizer's bounds for
\* splitter_function.
DeclaredBounds ==
    IF op = "create_polygon" THEN bounds
    ELSE lumopt_bounds(n_points_outer, n_points_inner)

Sgn(v) == IF v > 0 THEN 1 ELSE IF v < 0 THEN -1 ELSE 0

\* Twice the signed area of the triangle a, b, c.
Cross(a, b, c) ==
    (b[1] - a[1]) * (c[2] - a[2]) - (b[2] - a[2]) * (c[1] - a[1])

\* The closed segments ab and cd have a point in common.
SegmentsMeet(a, b, c, d) ==
    /\ Max2(Min2(a[1], b[1]), Min2(c[1], d[1])) <= Min2(Max2(a[1], b[1]), Max2(c[1], d[1]))
    /\ Max2(Min2(a[2], b[2]), Min2(c[2], d[2])) <= Min2(Max2(a[2], b[2]), Max2(c[2], d[2]))
    /\ Sgn(Cross(a, b, c)) * Sgn(Cross(a, b, d)) <= 0
    /\ Sgn(Cross(c, d, a)) * Sgn(Cross(c, d, b)) <= 0

\* The closed loop through the vertices is simple: no two edges have a point
\* in common unless one starts where the other ends.  An edge between a
\* vertex and a repetition of it has no extent and is left out.
Simple(P) ==
    LET m == Len(P)
        End(i) == P[(i % m) + 1]
    IN  \A i \in 1..m : \A j \in (i + 1)..m :
            \/ P[i] = End(i)
            \/ P[j] = End(j)
            \/ End(i) = P[j]
            \/ End(j) = P[i]
            \/ ~SegmentsMeet(P[i], End(i), P[j], End(j))

\* Every vertex of the upper outer run (the first no vertices) that lies over
\* the upper inner run (the next ni vertices, in decreasing x) is strictly
\* above it.
OuterAboveInner(P, no, ni) ==
    \A k \in 1..no : \A j \in (no + 1)..(no + ni - 1) :
        LET o == P[k]
            a == P[j + 1]
            b == P[j]
        IN  (a[1] <= o[1] /\ o[1] <= b[1]) =>
                (o[2] - a[2]) * (b[1] - a[1]) > (b[2] - a[2]) * (o[1] - a[1])

\* C3: for a control vector inside its declared bounds the returned polygon
\* is simple, and its upper outer edge stays strictly above its upper inner
\* edge wherever both exist.
C3_SimpleWithinBounds ==
    (Generated /\ InBounds(arg, DeclaredBounds)) =>
        /\ OuterAboveInner(ret.value, OuterSamples, InnerSamples)
        /\ Simple(ret.value)

\* C5: a control vector with an element outside its declared bound ends the
\* call in an OutOfBounds error, raised before any spline fit and before any
\* host call; no polygon is returned.
C5_OutOfBoundsRaises ==
    (op \in {"create_polygon", "splitter_function", "add_to_simulation"}
        /\ OutOfBounds(arg, DeclaredBounds)) =>
        /\ ret.status = "raised"
        /\ ret.error = "OutOfBounds"
        /\ ret.fits = 0
        /\ hostCalls = <<>>

\* ======================================================= the adapter's claims

\* The solids of the session that are named "y_branch_opt".
OptSolids == {i \in 1..Len(sim.objects) : sim.objects[i].name = "y_branch_opt"}

\* One of the host calls of the last operation failed.
HostCallFailed == \E i \in 1..Len(hostCalls) : ~hostCalls[i].ok

\* C4: after an add_to_simulation call that returned, the session holds
\* exactly one solid named "y_branch_opt", and its vertices are the polygon
\* generated from the vector of that call.
C4_ExactlyOneSolid ==
    (op = "add_to_simulation" /\ ret.status = "ok") =>
        /\ Cardinality(OptSolids) = 1
        /\ \A i \in OptSolids :
               /\ "vertices" \in DOMAIN sim.objects[i]
               /\ sim.objects[i].vertices = create_polygon(initial_points_x, arg).value

\* The vector handed to add_to_simulation in this step is malformed: its
\* length is not n_points, or it gives fewer than 4 extended knots.
MalformedCall ==
    /\ op' = "add_to_simulation"
    /\ calls' = calls + 1
    /\ Len(arg') # n_points \/ n_points + 2 < 4

\* C6: add_to_simulation with a malformed control vector raises the
\* generator's error before any host call is issued, and leaves the session,
\* a previously created "y_branch_opt" solid included, as it was.
C6_MalformedFailsBeforeHost ==
    [][MalformedCall =>
          /\ ret'.status = "raised"
          /\ ret'.error \in {"ValueError", "IndexError"}
          /\ hostCalls' = <<>>
          /\ sim' = sim]_vars

\* A second call, with a vector that is too long, has raised and the solid
\* that the first call created is still in the session.
C6_Witness ==
    /\ op = "add_to_simulation"
    /\ calls = 2
    /\ Len(arg) # n_points
    /\ ret.status = "raised"
    /\ hostCalls = <<>>
    /\ \E i \in OptSolids :
           /\ "vertices" \in DOMAIN sim.objects[i]
           /\ Len(sim.objects[i].vertices) = 3 * n_interpolation_points

\* C7: an operation one of whose host calls failed does not return normally:
\* the failure reaches its caller.
C7_HostFailurePropagates ==
    (op \in {"add_to_simulation", "run_lumopt_optimization"} /\ HostCallFailed) =>
        ret.status = "raised"

\* ========================================================= the setup's claims

\* The properties that only tune the optional mode source.
OptionalKnobs == {"injection axis", "direction", "wavelength start", "wavelength stop"}

\* The properties that place, size or identify a solid or a region.
GeometryProps == {"x", "y", "z", "x span", "y span", "z span", "index", "name"}

\* C8: in setup_base_simulation_mode a failed safe_set is the last host call
\* and the setup raises; a failed soft_set does not end the setup, which goes
\* on through every following call in program order; and soft_set is applied
\* to the optional source knobs only, never to a position, span, index or name.
C8_SafeAbortsSoftContinues ==
    op = "setup_base_simulation_mode" =>
        /\ \A k \in 1..Len(hostCalls) :
               /\ hostCalls[k].at = k
               /\ (hostCalls[k].via = "safe_set" /\ ~hostCalls[k].ok) =>
                      (k = Len(hostCalls) /\ ret.status = "raised")
               /\ (hostCalls[k].via = "soft_set" /\ ~hostCalls[k].ok /\ k = Len(hostCalls)) =>
                      ret.status # "raised"
               /\ hostCalls[k].via = "soft_set" =>
                      (hostCalls[k].arg \in OptionalKnobs /\ hostCalls[k].arg \notin GeometryProps)
        /\ ret.status = "none" => pc = Len(hostCalls) + 1
        /\ ret.status = "ok" => Len(hostCalls) = Len(mode_script)
        /\ \A k \in 1..Len(mode_script) :
               (mode_script[k].arg \in OptionalKnobs) = (mode_script[k].via = "soft_set")

\* The setup has returned its settings although a soft_set failed on the way,
\* and a safe_set was issued after that failure.
C8_Witness ==
    /\ op = "setup_base_simulation_mode"
    /\ ret.status = "ok"
    /\ \E k \in 1..Len(hostCalls) :
           /\ hostCalls[k].via = "soft_set"
           /\ ~hostCalls[k].ok
           /\ \E j \in (k + 1)..Len(hostCalls) : hostCalls[j].via = "safe_set"

\* ================================================== the edge builder's claims

\* The part of the control vector that shapes the outer edge: the whole
\* vector for create_polygon, its first half for splitter_function.
OuterControls ==
    IF op = "splitter_function" THEN SubSeq(arg, 1, Len(arg) \div 2) ELSE arg

\* C11: the control values handed to the outer spline fit are the supplied
\* sub-vector, unmodified, with its first value repeated at the left overhang
\* knot and its last value repeated at the right overhang knot; so the first
\* vertex of the polygon, at the leftmost knot minus 0.1 um, has the first
\* control value as its y, and the last outer vertex, at the rightmost knot
\* plus 0.1 um, has the last.
C11_EndValuesRepeated ==
    Generated =>
        LET c   == OuterControls
            fit == extend_y(c)
            P   == ret.value
        IN  /\ Len(fit) = Len(c) + 2
            /\ fit[1] = c[1]
            /\ fit[Len(fit)] = c[Len(c)]
            /\ \A i \in 1..Len(c) : fit[i + 1] = c[i]
            /\ P[1] = <<-XUm(1, 1) - XUm(1, 10), c[1]>>
            /\ P[OuterSamples] = <<XUm(1, 1) + XUm(1, 10), c[Len(c)]>>
            /\ op = "create_polygon" => P[1][1] = initial_points_x[1] - XUm(1, 10)

\* A polygon generated from a vector whose first element sits at the upper
\* end of its pinned interval, away from its initial value and from the last
\* element.
C11_Witness ==
    /\ Generated
    /\ op = "create_polygon"
    /\ arg[1] = bounds[1][2]
    /\ arg[1] # initial_points_y[1]
    /\ arg[1] # arg[Len(arg)]
    /\ ret.value[1][2] = arg[1]

\* ======================================================= the export's claims

\* The file holds one cell with one polygon, whose i-th vertex is the i-th
\* vertex of the array handed in with both coordinates times 1e6.
WrittenScaled ==
    /\ Len(hostCalls) = 1
    /\ hostCalls[1].call = "write_gds"
    /\ hostCalls[1].ok
    /\ Len(hostCalls[1].value) = 1
    /\ Len(hostCalls[1].value[1].polygons) = 1
    /\ LET written == hostCalls[1].value[1].polygons[1].points
       IN  /\ Len(written) = Len(arg)
           /\ \A i \in 1..Len(arg) :
                  /\ written[i][1] = arg[i][1] * 1000000
                  /\ written[i][2] = arg[i][2] * 1000000

\* C12: an export_to_gds call that completes normally has written one polygon
\* whose i-th vertex is the i-th input vertex with both coordinates multiplied
\* by 1e6, in the same number and order, and has left the input array as it
\* was.
C12_ExportWritesScaledPolygon ==
    (op = "export_to_gds" /\ ret.status = "ok") =>
        /\ WrittenScaled
        /\ params = arg

\* ------------------------------------------------------ sample positions

\* The x-positions of the outer samples, in the order they were taken.
OuterSampleX == [i \in 1..OuterSamples |-> ret.value[i][1]]

\* The x-positions of the inner samples, in the order they were taken (read
\* from the lower inner run, which keeps that order).
InnerSampleX ==
    [i \in 1..InnerSamples |-> ret.value[OuterSamples + InnerSamples + i][1]]

\* The positions xs run from first to last, strictly increasing, in equal steps.
EvenlyFrom(xs, n, first, last) ==
    /\ xs[1] = first
    /\ xs[n] = last
    /\ \A i \in 1..(n - 1) : xs[i] < xs[i + 1]
    /\ \A i \in 1..(n - 2) : xs[i + 1] - xs[i] = xs[i + 2] - xs[i + 1]

OuterKnotsX ==
    IF op = "splitter_function" THEN splitter_points_x_outer(arg)
    ELSE polygon_points_x_knots(initial_points_x)

\* C13 as stated: the sample x-positions of every fitted edge (the outer edge
\* of both variants, the inner edge of splitter_function) are strictly
\* increasing, evenly spaced, and run from the minimum extended knot x, left
\* overhang included, to the maximum extended knot x.
C13_SamplesSpanDomain ==
    Generated =>
        /\ EvenlyFrom(OuterSampleX, OuterSamples,
                      SeqMin(OuterKnotsX), SeqMax(OuterKnotsX))
        /\ op = "splitter_function" =>
               EvenlyFrom(InnerSampleX, InnerSamples,
                          SeqMin(splitter_points_x_inner(arg)),
                          SeqMax(splitter_points_x_inner(arg)))

\* C13, amended: the outer samples of both variants are strictly increasing,
\* evenly spaced, and run from the minimum to the maximum extended knot x; the
\* inner samples of splitter_function are strictly increasing and evenly
\* spaced from x = 0, the first inner knot, to the maximum extended knot x, and
\* leave the left overhang out.
C13_InnerSamplesFromSplit ==
    Generated =>
        /\ EvenlyFrom(OuterSampleX, OuterSamples,
                      SeqMin(OuterKnotsX), SeqMax(OuterKnotsX))
        /\ op = "splitter_function" =>
               /\ EvenlyFrom(InnerSampleX, InnerSamples,
                             0, SeqMax(splitter_points_x_inner(arg)))
               /\ splitter_points_x_inner(arg)[2] = 0
               /\ SeqMin(splitter_points_x_inner(arg)) < InnerSampleX[1]

\* A polygon of splitter_function, with 10 outer and 10 inner controls, whose
\* inner samples start at 0 while the inner knots start at -0.05 um.
C13_Witness ==
    /\ Generated
    /\ op = "splitter_function"
    /\ Len(arg) = n_points_outer + n_points_inner
    /\ InnerSampleX[1] = 0
    /\ SeqMin(splitter_points_x_inner(arg)) = -XUm(5, 100)
    /\ InnerSampleX[InnerSamples] = XUm(11, 10)

\* ================================================= the constructor's claims

\* Every entry of bnds is a closed interval with lower <= upper.
Intervals(bnds) == \A i \in 1..Len(bnds) : bnds[i][1] <= bnds[i][2]

\* C14: an instance constructed with n_points >= 1 has exactly n_points
\* bounds, each with lower <= upper, the first the input-port pin (0.24 um,
\* 0.28 um), the last the output-port pin (1.2 um, 1.3 um), and every initial
\* control value inside its bound; the initial vector and the bounds that
\* run_lumopt_optimization hands to the optimizer have one bound for each
\* value, each with lower <= upper, and every initial value inside its bound.
C14_InitialInsideBounds ==
    /\ n_points >= 1 =>
           /\ Len(bounds) = n_points
           /\ Len(initial_points_y) = n_points
           /\ Intervals(bounds)
           /\ bounds[1] = <<YUm(24, 100), YUm(28, 100)>>
           /\ bounds[n_points] = <<YUm(120, 100), YUm(130, 100)>>
           /\ InBounds(initial_points_y, bounds)
    /\ n_points = 0 =>
           LET y0   == lumopt_initial(n_points_outer, n_points_inner)
               bnds == lumopt_bounds(n_points_outer, n_points_inner)
           IN  /\ Len(bnds) = n_points_outer + n_points_inner
               /\ Len(y0) = Len(bnds)
               /\ Intervals(bnds)
               /\ InBounds(y0, bnds)

====
